---- MODULE Spec2Model ----
(***************************************************************************)
(* The request-dispatch core of the Paradigm Python SDK                    *)
(* (sdks/python/src/paradigm_sdk/client.py): the sliding-window            *)
(* RateLimiter, the response interpreter _handle_response, the retrying    *)
(* dispatcher _make_request / _make_async_request and the typed facade     *)
(* operations that validate their arguments before dispatch and make the  *)
(* payload into their typed record.                                        *)
(*                                                                         *)
(* Time is a global integer clock (seconds).  A Python dict is a function  *)
(* whose domain is its set of keys; dict.get(k, default) is Get.           *)
(*                                                                         *)
(* The specifications share the actions:                                   *)
(*   Spec         a sequence of calls through the dispatcher and limiter;  *)
(*   SpecFacade   one facade call of any kind, with any arguments;         *)
(*   SpecCall     one dispatcher call under every status and body;         *)
(*   SpecMixed    blocking and suspending calls in turn;                   *)
(*   SpecTasks    suspending calls of two tasks in flight together;        *)
(*   SpecAny      a sequence of calls under any accepted configuration;    *)
(*   SpecShutdown calls and shutdowns (close, aclose) in sequence;         *)
(*   SpecTwo      two clients in use at the same time;                     *)
(*   SpecConfig   calls and rotations of the API key (set_api_key);        *)
(*   SpecWindow   a longer sequence of suspending calls of two tasks;      *)
(*   SpecReject   a served call, then a facade call of any kind;           *)
(*   SpecPage     one paginated call, answered with a page.                *)
(***************************************************************************)
EXTENDS Integers, Sequences, FiniteSets, TLC

VARIABLES
    config,     \* ParadigmClient.config: the ClientConfig
    limiter,    \* RateLimiter.requests and RateLimiter.window
    calls,      \* RateLimiter.calls: the recorded timestamps
    clock,      \* time.time()
    pc,         \* per caller: where it stands in its facade call
    call,       \* per caller: the locals of its facade call and its history
    issued,     \* the requests put on the transport: time, attempt index, content, key
    started,    \* the number of facade calls made so far
    transport,  \* the two httpx clients of the client: closed or not
    peer        \* RateLimiter.calls of a second ParadigmClient

vars == <<config, limiter, calls, clock, pc, call, issued, started, transport, peer>>

---------------------------------------------------------------------------
(* Bounds of the model.                                                    *)

MaxTime == 4
MaxQuota == 2
MaxWindow == 2
MaxRetries == 2
MaxCalls == 3
MaxAcquires == 4
MaxCloses == 2

---------------------------------------------------------------------------
(* Python values.                                                          *)

EmptyDict == [k \in {} |-> TRUE]

Get(d, k, default) == IF k \in DOMAIN d THEN d[k] ELSE default

RECURSIVE Pow2(_)
Pow2(n) == IF n <= 0 THEN 1 ELSE 2 * Pow2(n - 1)

---------------------------------------------------------------------------
(* The wire: status codes and bodies a server can send.                    *)

Statuses == {200, 399, 400, 429, 500}

Data1 == [id |-> 1]
Data2 == [id |-> 2, balance |-> 7]
ErrorXY == [message |-> "x", code |-> "Y"]

(* Pagination payloads: a first and a last page of three transactions, *)
(* then a page longer than its page_size, a last page that says it has a *)
(* next one, a first page that says it has a previous one, a page with    *)
(* no "items", a page with no "has_prev" and a page whose item is not a   *)
(* transaction.                                                            *)
Tx1 == [hash |-> "h1"]
Tx2 == [hash |-> "h2"]
Tx3 == [hash |-> "h3"]
PageFirst ==
    [ items |-> <<Tx1, Tx2>>, total_count |-> 3, page |-> 1, page_size |-> 2,
      total_pages |-> 2, has_next |-> TRUE, has_prev |-> FALSE ]
PageLast ==
    [ items |-> <<Tx3>>, total_count |-> 3, page |-> 2, page_size |-> 2,
      total_pages |-> 2, has_next |-> FALSE, has_prev |-> TRUE ]
PageLong == [PageFirst EXCEPT !.page_size = 1]
PageNext == [PageLast EXCEPT !.has_next = TRUE]
PagePrev == [PageFirst EXCEPT !.has_prev = TRUE]
PageNoItems ==
    [ total_count |-> 3, page |-> 1, page_size |-> 2,
      total_pages |-> 2, has_next |-> TRUE, has_prev |-> FALSE ]
PageNoPrev ==
    [ items |-> <<Tx1, Tx2>>, total_count |-> 3, page |-> 1, page_size |-> 2,
      total_pages |-> 2, has_next |-> TRUE ]
PageBadItem == [PageLast EXCEPT !.items = <<Data1>>]

(* The third and last page of 45 transactions, 20 to a page. *)
Page45 ==
    [ items |-> <<Tx3, Tx1, Tx2>>, total_count |-> 45, page |-> 3,
      page_size |-> 20, total_pages |-> 3, has_next |-> FALSE,
      has_prev |-> TRUE ]

(* The body texts; Json gives what json.loads makes of each. *)
Bodies ==
    { "", "<html>", "[]",
      "{success:true,data:D1}", "{success:true,data:D2}", "{success:true}",
      "{success:true,data:D1,error:{message:x,code:Y}}",
      "{success:false,error:{message:x,code:Y}}",
      "{success:false,error:{message:x}}", "{success:false,error:{code:Y}}",
      "{success:false}", "{data:D1}", "{error:{message:x,code:Y}}", "{}" }

Responses == [status_code : Statuses, text : Bodies]

(* The body texts of the answers to a paginated request. *)
PageBodies ==
    { "{success:true,data:PageFirst}", "{success:true,data:PageLast}",
      "{success:true,data:PageLong}", "{success:true,data:PageNext}",
      "{success:true,data:PagePrev}", "{success:true,data:PageNoItems}",
      "{success:true,data:PageNoPrev}", "{success:true,data:PageBadItem}",
      "{success:true,data:Page45}" }

NotJson == [type |-> "JSONDecodeError"]
JsonList == [type |-> "list"]
JsonDict(d) == [type |-> "dict", value |-> d]

(* response.json() *)
Json(text) ==
    CASE text = "{success:true,data:D1}" ->
            JsonDict([success |-> TRUE, data |-> Data1])
      [] text = "{success:true,data:D2}" ->
            JsonDict([success |-> TRUE, data |-> Data2])
      [] text = "{success:true}" -> JsonDict([success |-> TRUE])
      [] text = "{success:true,data:D1,error:{message:x,code:Y}}" ->
            JsonDict([success |-> TRUE, data |-> Data1, error |-> ErrorXY])
      [] text = "{success:false,error:{message:x,code:Y}}" ->
            JsonDict([success |-> FALSE, error |-> ErrorXY])
      [] text = "{success:false,error:{message:x}}" ->
            JsonDict([success |-> FALSE, error |-> [message |-> "x"]])
      [] text = "{success:false,error:{code:Y}}" ->
            JsonDict([success |-> FALSE, error |-> [code |-> "Y"]])
      [] text = "{success:false}" -> JsonDict([success |-> FALSE])
      [] text = "{data:D1}" -> JsonDict([data |-> Data1])
      [] text = "{error:{message:x,code:Y}}" -> JsonDict([error |-> ErrorXY])
      [] text = "{}" -> JsonDict(EmptyDict)
      [] text = "{success:true,data:PageFirst}" ->
            JsonDict([success |-> TRUE, data |-> PageFirst])
      [] text = "{success:true,data:PageLast}" ->
            JsonDict([success |-> TRUE, data |-> PageLast])
      [] text = "{success:true,data:PageLong}" ->
            JsonDict([success |-> TRUE, data |-> PageLong])
      [] text = "{success:true,data:PageNext}" ->
            JsonDict([success |-> TRUE, data |-> PageNext])
      [] text = "{success:true,data:PagePrev}" ->
            JsonDict([success |-> TRUE, data |-> PagePrev])
      [] text = "{success:true,data:PageNoItems}" ->
            JsonDict([success |-> TRUE, data |-> PageNoItems])
      [] text = "{success:true,data:PageNoPrev}" ->
            JsonDict([success |-> TRUE, data |-> PageNoPrev])
      [] text = "{success:true,data:PageBadItem}" ->
            JsonDict([success |-> TRUE, data |-> PageBadItem])
      [] text = "{success:true,data:Page45}" ->
            JsonDict([success |-> TRUE, data |-> Page45])
      [] text = "[]" -> JsonList
      [] OTHER -> NotJson

---------------------------------------------------------------------------
(* Results of a call: a payload, or a raised exception.                    *)

NoResult == [kind |-> "none", message |-> "", code |-> "", payload |-> EmptyDict]

Return_(p) == [kind |-> "payload", message |-> "", code |-> "", payload |-> p]

(* A function that ends without a return statement returns None. *)
ReturnNone == [kind |-> "None", message |-> "", code |-> "", payload |-> EmptyDict]

Raise(cls, msg, errcode) ==
    [kind |-> cls, message |-> msg, code |-> errcode, payload |-> EmptyDict]

(* The code attribute ParadigmError(message) gets when no code is passed. *)
DefaultCode == "<default>"

ParadigmError(msg, errcode) == Raise("ParadigmError", msg, errcode)
NetworkError(msg) == Raise("NetworkError", msg, DefaultCode)
RateLimitError(msg) == Raise("RateLimitError", msg, DefaultCode)
ValidationError(msg) == Raise("ValidationError", msg, DefaultCode)

---------------------------------------------------------------------------
(* Response Interpreter: ParadigmClient._handle_response.                  *)

(* The interpreter returning the whole envelope instead of its data. *)
_handle_response_envelope(r) ==
    LET data == Json(r.text) IN
    IF data.type = "JSONDecodeError"
    THEN NetworkError("Invalid JSON response: " \o r.text)
    ELSE IF r.status_code = 429
    THEN RateLimitError("Rate limit exceeded")
    ELSE IF data.type # "dict"
    THEN Raise("AttributeError", "'list' object has no attribute 'get'", "")
    ELSE IF r.status_code >= 400
    THEN ParadigmError(
             Get(Get(data.value, "error", EmptyDict), "message", "Unknown error"),
             Get(Get(data.value, "error", EmptyDict), "code", "UNKNOWN"))
    ELSE IF ~Get(data.value, "success", FALSE)
    THEN ParadigmError(
             Get(Get(data.value, "error", EmptyDict), "message", "Request failed"),
             DefaultCode)
    ELSE Return_(data.value)

(* The interpreter looking at the success flag before the status. *)
_handle_response_success_first(r) ==
    LET data == Json(r.text) IN
    IF data.type = "JSONDecodeError"
    THEN NetworkError("Invalid JSON response: " \o r.text)
    ELSE IF r.status_code = 429
    THEN RateLimitError("Rate limit exceeded")
    ELSE IF data.type # "dict"
    THEN Raise("AttributeError", "'list' object has no attribute 'get'", "")
    ELSE IF Get(data.value, "success", FALSE)
    THEN Return_(Get(data.value, "data", EmptyDict))
    ELSE IF r.status_code >= 400
    THEN ParadigmError(
             Get(Get(data.value, "error", EmptyDict), "message", "Unknown error"),
             Get(Get(data.value, "error", EmptyDict), "code", "UNKNOWN"))
    ELSE ParadigmError(
             Get(Get(data.value, "error", EmptyDict), "message", "Request failed"),
             DefaultCode)

(* The interpreter giving a status of 400 or more the placeholders of    *)
(* the success=false branch.                                               *)
_handle_response_request_failed(r) ==
    LET data == Json(r.text) IN
    IF data.type = "JSONDecodeError"
    THEN NetworkError("Invalid JSON response: " \o r.text)
    ELSE IF r.status_code = 429
    THEN RateLimitError("Rate limit exceeded")
    ELSE IF data.type # "dict"
    THEN Raise("AttributeError", "'list' object has no attribute 'get'", "")
    ELSE IF r.status_code >= 400 \/ ~Get(data.value, "success", FALSE)
    THEN ParadigmError(
             Get(Get(data.value, "error", EmptyDict), "message", "Request failed"),
             DefaultCode)
    ELSE Return_(Get(data.value, "data", EmptyDict))

_handle_response(r) ==
    LET data == Json(r.text) IN
    IF data.type = "JSONDecodeError"
    THEN NetworkError("Invalid JSON response: " \o r.text)
    ELSE IF r.status_code = 429
    THEN RateLimitError("Rate limit exceeded")
    ELSE IF data.type # "dict"
    THEN Raise("AttributeError", "'list' object has no attribute 'get'", "")
    ELSE IF r.status_code >= 400
    THEN ParadigmError(
             Get(Get(data.value, "error", EmptyDict), "message", "Unknown error"),
             Get(Get(data.value, "error", EmptyDict), "code", "UNKNOWN"))
    ELSE IF ~Get(data.value, "success", FALSE)
    THEN ParadigmError(
             Get(Get(data.value, "error", EmptyDict), "message", "Request failed"),
             DefaultCode)
    ELSE Return_(Get(data.value, "data", EmptyDict))

---------------------------------------------------------------------------
(* Argument validation: paradigm_sdk.utils (imported by client.py; the     *)
(* functions are taken as the well-formedness tests the design describes). *)

None == "None"

Addresses == {"", "PAR1bad", "PAR1ok", " par1ok"}
Amounts == {"10", "-1"}

(* "" is empty, "PAR1bad" has a wrong checksum; " par1ok" is the well-formed *)
(* address "PAR1ok" in a spelling format_address normalises.               *)
format_address(a) == IF a = " par1ok" THEN "PAR1ok" ELSE a
validate_address(a) == a \in {"PAR1ok", " par1ok"}
validate_amount(m) == m = "10"

---------------------------------------------------------------------------
(* The client and its callers.                                             *)

(* One thread making blocking calls and one asyncio task making           *)
(* suspending calls, on the same client.                                   *)
Callers == {"thread", "task"}

TransportErrors == {"ConnectError", "TimeoutException", "ReadError"}
Retried == {"ConnectError", "TimeoutException"}

NoResponse == [status_code |-> 0, text |-> ""]

(* self._client serves the blocking path, self._async_client the         *)
(* suspending path.  is_closed is the state of the httpx client; closes   *)
(* counts the calls of its close method.                                   *)
HttpClients == {"_client", "_async_client"}
OpenClient == [is_closed |-> FALSE, closes |-> 0, x_api_key |-> None]
ClientOf(c) == IF c = "thread" THEN "_client" ELSE "_async_client"

IdleCall ==
    [ op |-> "-", addr |-> None, amt |-> None,
      now |-> 0, wake |-> 0, attempt |-> 0,
      acquires |-> 0, http |-> 0, waits |-> <<>>, fails |-> 0,
      cause |-> None, resp |-> NoResponse, result |-> NoResult ]

(* A ClientConfig with the given retries, rate_limit_requests and         *)
(* rate_limit_window, a base_url, and the defaults of the other fields.   *)
ClientConfig(retries, requests, window) ==
    [ base_url |-> "https://node",
      api_key |-> None,
      timeout |-> 30,
      retries |-> retries,
      network |-> "mainnet",
      rate_limit_requests |-> requests,
      rate_limit_window |-> window ]

(* RateLimiter.__init__: the limiter keeps its own requests and window.   *)
RateLimiter(requests, window) == [requests |-> requests, window |-> window]

Configs ==
    { ClientConfig(r, q, w) :
        r \in 0..MaxRetries, q \in 1..MaxQuota, w \in 1..MaxWindow }

Init ==
    /\ config \in Configs
    /\ limiter = RateLimiter(config.rate_limit_requests, config.rate_limit_window)
    /\ calls = <<>>
    /\ clock = 0
    /\ pc = [c \in Callers |-> "idle"]
    /\ call = [c \in Callers |-> IdleCall]
    /\ issued = <<>>
    /\ started = 0
    /\ transport = [h \in HttpClients |-> OpenClient]
    /\ peer = <<>>

Finish(c, cl, res) ==
    /\ pc' = [pc EXCEPT ![c] = "done"]
    /\ call' = [call EXCEPT ![c] = [cl EXCEPT !.result = res]]

---------------------------------------------------------------------------
(* Rate Limiter: RateLimiter.wait_if_needed / async_wait_if_needed.        *)

(* What the list comprehension keeps of the list w at time t. *)
Kept(w, t) == SelectSeq(w, LAMBDA x : t - x < limiter.window)

(* A prune that keeps the entries exactly window seconds old. *)
Prune_inclusive(now) ==
    SelectSeq(calls, LAMBDA call_time : now - call_time <= limiter.window)

Prune(now) ==
    SelectSeq(calls, LAMBDA call_time : now - call_time < limiter.window)

(* Up to the sleep: read the clock, prune, check, and either record and   *)
(* return or go to sleep.  cl is the caller's call record.                 *)
wait_if_needed(c, cl) ==
    LET now == clock
        pruned == Prune(now)
    IN  IF Len(pruned) >= limiter.requests
        THEN IF pruned = <<>>
             THEN /\ calls' = pruned
                  /\ Finish(c, cl, Raise("IndexError", "list index out of range", ""))
             ELSE LET sleep_time == limiter.window - (now - pruned[1]) IN
                  IF sleep_time > 0
                  THEN /\ calls' = pruned
                       /\ pc' = [pc EXCEPT ![c] = "limited"]
                       /\ call' = [call EXCEPT ![c] =
                              [cl EXCEPT !.now = now, !.wake = clock + sleep_time]]
                  ELSE /\ calls' = Append(pruned, now)
                       /\ pc' = [pc EXCEPT ![c] = "attempt"]
                       /\ call' = [call EXCEPT ![c] = [cl EXCEPT !.acquires = @ + 1]]
        ELSE /\ calls' = Append(pruned, now)
             /\ pc' = [pc EXCEPT ![c] = "attempt"]
             /\ call' = [call EXCEPT ![c] = [cl EXCEPT !.acquires = @ + 1]]

(* A suspending acquire that admits at once and keeps no account in      *)
(* self.calls.                                                             *)
async_wait_if_needed_apart(c, cl) ==
    /\ calls' = calls
    /\ pc' = [pc EXCEPT ![c] = "attempt"]
    /\ call' = [call EXCEPT ![c] = [cl EXCEPT !.acquires = @ + 1]]

(* A suspending acquire that waits a whole window for every entry left. *)
async_wait_if_needed_queued(c, cl) ==
    LET now == clock
        pruned == Prune(now)
    IN  IF Len(pruned) >= limiter.requests /\ pruned # <<>>
        THEN /\ calls' = pruned
             /\ pc' = [pc EXCEPT ![c] = "limited"]
             /\ call' = [call EXCEPT ![c] =
                    [cl EXCEPT !.now = now,
                               !.wake = clock + limiter.window * Len(pruned)]]
        ELSE /\ calls' = Append(pruned, now)
             /\ pc' = [pc EXCEPT ![c] = "attempt"]
             /\ call' = [call EXCEPT ![c] = [cl EXCEPT !.acquires = @ + 1]]

(* The suspending acquire, up to its await of asyncio.sleep. *)
async_wait_if_needed(c, cl) ==
    LET now == clock
        pruned == Prune(now)
    IN  IF Len(pruned) >= limiter.requests
        THEN IF pruned = <<>>
             THEN /\ calls' = pruned
                  /\ Finish(c, cl, Raise("IndexError", "list index out of range", ""))
             ELSE LET sleep_time == limiter.window - (now - pruned[1]) IN
                  IF sleep_time > 0
                  THEN /\ calls' = pruned
                       /\ pc' = [pc EXCEPT ![c] = "limited"]
                       /\ call' = [call EXCEPT ![c] =
                              [cl EXCEPT !.now = now, !.wake = clock + sleep_time]]
                  ELSE /\ calls' = Append(pruned, now)
                       /\ pc' = [pc EXCEPT ![c] = "attempt"]
                       /\ call' = [call EXCEPT ![c] = [cl EXCEPT !.acquires = @ + 1]]
        ELSE /\ calls' = Append(pruned, now)
             /\ pc' = [pc EXCEPT ![c] = "attempt"]
             /\ call' = [call EXCEPT ![c] = [cl EXCEPT !.acquires = @ + 1]]

(* After the sleep: record the timestamp read before it, and return. *)
LimiterWake(c) ==
    /\ pc[c] = "limited"
    /\ clock >= call[c].wake
    /\ calls' = Append(calls, call[c].now)
    /\ pc' = [pc EXCEPT ![c] = "attempt"]
    /\ call' = [call EXCEPT ![c] =
           [@ EXCEPT !.acquires = @ + 1, !.now = 0, !.wake = 0]]
    /\ UNCHANGED <<config, limiter, transport, peer, clock, issued, started>>

---------------------------------------------------------------------------
(* Request Dispatcher: ParadigmClient._make_request / _make_async_request. *)

(* Entry: one acquire, then the retry loop starts at attempt 0. *)
_make_request(c, cl) == wait_if_needed(c, cl)

_make_async_request(c, cl) == async_wait_if_needed(c, cl)

(* The except clause with a backoff that grows linearly from zero. *)
OnTransportFailure_linear(c, cl) ==
    IF cl.attempt = config.retries
    THEN /\ Finish(c, cl, NetworkError("Request failed after retries"))
    ELSE LET wait_time == 2 * cl.attempt IN
         /\ pc' = [pc EXCEPT ![c] = "backoff"]
         /\ call' = [call EXCEPT ![c] =
                [cl EXCEPT !.waits = Append(@, wait_time),
                           !.wake = clock + wait_time]]

(* An except clause that sleeps and retries whatever the attempt index. *)
OnTransportFailure_unbounded(c, cl) ==
    LET wait_time == Pow2(cl.attempt) IN
    /\ pc' = [pc EXCEPT ![c] = "backoff"]
    /\ call' = [call EXCEPT ![c] =
           [cl EXCEPT !.waits = Append(@, wait_time),
                      !.wake = clock + wait_time]]

(* What the except clause does with a connect or timeout failure. *)
OnTransportFailure(c, cl) ==
    IF cl.attempt = config.retries
    THEN /\ Finish(c, cl, NetworkError("Request failed after retries"))
    ELSE LET wait_time == Pow2(cl.attempt) IN
         /\ pc' = [pc EXCEPT ![c] = "backoff"]
         /\ call' = [call EXCEPT ![c] =
                [cl EXCEPT !.waits = Append(@, wait_time),
                           !.wake = clock + wait_time]]

(* The arguments the facade operation of the call cl passes to the        *)
(* dispatcher: method, endpoint, params and json_data, as texts ("None"    *)
(* where none is passed).                                                   *)
Arguments(cl) ==
    LET Req(method, endpoint, params, json_data) ==
            [ method |-> method, url |-> endpoint,
              params |-> params, json |-> json_data ]
        body == "{to:" \o cl.addr \o ",amount:" \o cl.amt \o "}"
    IN CASE cl.op \in {"get_health", "get_health_async"} ->
               Req("GET", "/health", None, None)
         [] cl.op \in {"get_account", "get_account_async"} ->
               Req("GET", "/accounts/" \o cl.addr, None, None)
         [] cl.op \in {"get_balance", "get_balance_async"} ->
               Req("GET", "/accounts/" \o cl.addr \o "/balance", None, None)
         [] cl.op \in {"create_transaction", "create_transaction_async"} ->
               Req("POST", "/transactions", None, body)
         [] cl.op = "estimate_fee" ->
               Req("POST", "/transactions/estimate-fee", None, body)
         [] cl.op = "get_transactions" ->
               Req("GET",
                   IF cl.addr \in {None, ""}
                   THEN "/transactions"
                   ELSE "/addresses/" \o cl.addr \o "/transactions",
                   "{page:1,page_size:20}", None)
         [] cl.op = "get_ml_tasks" ->
               Req("GET", "/ml-tasks", "{page:1,page_size:20}", None)

(* A request that leaves out the body when it is a retry. *)
request_bodyless_retry(cl) ==
    IF cl.attempt > 0
    THEN [Arguments(cl) EXCEPT !.json = None]
    ELSE Arguments(cl)

(* self._client.request(method=method, url=endpoint, params=params,       *)
(* json=json_data): the request an attempt of the call cl puts on the      *)
(* transport, made of the arguments of the dispatcher call.                *)
request(cl) == Arguments(cl)

(* One pass of the loop body (range(retries + 1) has an attempt left and *)
(* the httpx client is open).  The request goes out and fails on the      *)
(* transport with exception e, which the except clause binds until the    *)
(* next pass.                                                              *)
Fail(c, e) ==
    /\ pc[c] = "attempt"
    /\ call[c].attempt <= config.retries
    /\ ~transport[ClientOf(c)].is_closed
    /\ issued' = Append(issued, [time |-> clock, attempt |-> call[c].attempt,
                                 request |-> request(call[c]),
                                 x_api_key |-> transport[ClientOf(c)].x_api_key])
    /\ LET cl == [call[c] EXCEPT !.http = @ + 1, !.fails = @ + 1, !.cause = e] IN
       IF e \in Retried
       THEN OnTransportFailure(c, cl)
       ELSE Finish(c, cl, Raise(e, "", ""))
    /\ UNCHANGED <<config, limiter, transport, peer, calls, clock, started>>

(* The typed records of the facade.  A record class is called with the  *)
(* payload's fields as keyword arguments: a payload that lacks a field   *)
(* of the class, or has a field the class does not declare, is a          *)
(* TypeError.                                                              *)
Fields(cls) ==
    CASE cls = "Account" -> {"id", "balance"}
      [] cls = "Transaction" -> {"hash"}
      [] cls = "MLTask" -> {"hash"}
      [] cls = "FeeEstimate" -> {"id", "balance"}

TypedRecord(cls, data) ==
    IF DOMAIN data = Fields(cls)
    THEN Return_(data)
    ELSE Raise("TypeError", cls, "")

(* The keys of a pagination payload, in the order PaginatedResponse(...)  *)
(* reads them.                                                             *)
PageKeys ==
    << "items", "total_count", "page", "page_size", "total_pages",
       "has_next", "has_prev" >>

(* PaginatedResponse with its flags computed from the page numbers. *)
PaginatedResponse_computed(cls, data) ==
    IF \E k \in 1..Len(PageKeys) : PageKeys[k] \notin DOMAIN data
    THEN Raise("KeyError", "", "")
    ELSE Return_([data EXCEPT !.has_next = data.page < data.total_pages,
                              !.has_prev = data.page > 1])

(* PaginatedResponse with no more items than page_size. *)
PaginatedResponse_clipped(cls, data) ==
    IF \E k \in 1..Len(PageKeys) : PageKeys[k] \notin DOMAIN data
    THEN Raise("KeyError", "", "")
    ELSE Return_([data EXCEPT !.items =
                     IF Len(@) > data.page_size
                     THEN SubSeq(@, 1, data.page_size)
                     ELSE @])

(* PaginatedResponse(items=[one record of the class per item of          *)
(* data["items"]], total_count=data["total_count"], ...): the first key   *)
(* the payload lacks is a KeyError, an item that is not a record of the   *)
(* class a TypeError, and every value is passed on as the payload has it. *)
PaginatedResponse(cls, data) ==
    IF "items" \notin DOMAIN data
    THEN Raise("KeyError", "items", "")
    ELSE IF \E i \in 1..Len(data.items) :
                TypedRecord(cls, data.items[i]).kind # "payload"
    THEN Raise("TypeError", cls, "")
    ELSE IF \E k \in 1..Len(PageKeys) : PageKeys[k] \notin DOMAIN data
    THEN LET k == CHOOSE k \in 1..Len(PageKeys) :
                      /\ PageKeys[k] \notin DOMAIN data
                      /\ \A j \in 1..(k - 1) : PageKeys[j] \in DOMAIN data
         IN Raise("KeyError", PageKeys[k], "")
    ELSE Return_([ items |-> [i \in 1..Len(data.items) |->
                                 TypedRecord(cls, data.items[i]).payload],
                   total_count |-> data.total_count, page |-> data.page,
                   page_size |-> data.page_size,
                   total_pages |-> data.total_pages,
                   has_next |-> data.has_next, has_prev |-> data.has_prev ])

PaginatedOperations == { "get_transactions", "get_ml_tasks" }

(* What the facade operation op returns when its dispatcher call ends     *)
(* with res: an error goes up as it is, a payload is made into the        *)
(* operation's typed record (get_health and get_balance return the        *)
(* payload itself); None in the place of a payload is a TypeError where  *)
(* a record is to be made of it.                                           *)
Decoded(op, res) ==
    IF res.kind \notin {"payload", "None"}
    THEN res
    ELSE IF res.kind = "None"
    THEN IF op \in {"get_health", "get_health_async", "get_balance",
                    "get_balance_async"}
         THEN res
         ELSE Raise("TypeError", "argument after ** must be a mapping", "")
    ELSE LET data == res.payload IN
         CASE op \in {"get_account", "get_account_async"} ->
                 TypedRecord("Account", data)
           [] op \in {"create_transaction", "create_transaction_async"} ->
                 TypedRecord("Transaction", data)
           [] op = "estimate_fee" -> TypedRecord("FeeEstimate", data)
           [] op = "get_transactions" -> PaginatedResponse("Transaction", data)
           [] op = "get_ml_tasks" -> PaginatedResponse("MLTask", data)
           [] OTHER -> res

(* The loop body treating a 5xx response as a failure to retry. *)
Respond_retry5xx(c, r) ==
    /\ pc[c] = "attempt"
    /\ call[c].attempt <= config.retries
    /\ ~transport[ClientOf(c)].is_closed
    /\ issued' = Append(issued, [time |-> clock, attempt |-> call[c].attempt,
                                 request |-> request(call[c]),
                                 x_api_key |-> transport[ClientOf(c)].x_api_key])
    /\ LET cl == [call[c] EXCEPT !.http = @ + 1, !.resp = r] IN
       IF r.status_code >= 500
       THEN OnTransportFailure(c, cl)
       ELSE Finish(c, cl, Decoded(cl.op, _handle_response(r)))
    /\ UNCHANGED <<config, limiter, transport, peer, calls, clock, started>>

(* The loop body giving up on a response that comes after a failed       *)
(* attempt: the failure already seen decides the result.                   *)
Respond_after_failure(c, r) ==
    /\ pc[c] = "attempt"
    /\ call[c].attempt <= config.retries
    /\ ~transport[ClientOf(c)].is_closed
    /\ issued' = Append(issued, [time |-> clock, attempt |-> call[c].attempt,
                                 request |-> request(call[c]),
                                 x_api_key |-> transport[ClientOf(c)].x_api_key])
    /\ Finish(c, [call[c] EXCEPT !.http = @ + 1, !.resp = r],
              IF call[c].fails > 0
              THEN NetworkError("Request failed")
              ELSE Decoded(call[c].op, _handle_response(r)))
    /\ UNCHANGED <<config, limiter, transport, peer, calls, clock, started>>

(* One pass of the loop body.  The request goes out, response r comes     *)
(* back and the call returns what _handle_response makes of it.           *)
Respond(c, r) ==
    /\ pc[c] = "attempt"
    /\ call[c].attempt <= config.retries
    /\ ~transport[ClientOf(c)].is_closed
    /\ issued' = Append(issued, [time |-> clock, attempt |-> call[c].attempt,
                                 request |-> request(call[c]),
                                 x_api_key |-> transport[ClientOf(c)].x_api_key])
    /\ Finish(c, [call[c] EXCEPT !.http = @ + 1, !.resp = r],
              Decoded(call[c].op, _handle_response(r)))
    /\ UNCHANGED <<config, limiter, transport, peer, calls, clock, started>>

(* The replies of the server in the runs of the whole client: one body of *)
(* each kind under a success, a rate-limit and a server-error status.     *)
Replies ==
    { r \in Responses :
        /\ r.status_code \in {200, 429, 500}
        /\ r.text \in { "", "{success:true,data:D1}",
                        "{success:false,error:{message:x,code:Y}}" } }

(* The reply of a server that answers with a payload. *)
Served == [status_code |-> 200, text |-> "{success:true,data:D1}"]

Attempt(c) ==
    \/ \E e \in TransportErrors : Fail(c, e)
    \/ \E r \in Replies : Respond(c, r)

(* The backoff sleep is over: the loop goes to the next attempt. *)
BackoffWake(c) ==
    /\ pc[c] = "backoff"
    /\ clock >= call[c].wake
    /\ pc' = [pc EXCEPT ![c] = "attempt"]
    /\ call' = [call EXCEPT ![c] =
           [@ EXCEPT !.attempt = @ + 1, !.wake = 0, !.cause = None]]
    /\ UNCHANGED <<config, limiter, transport, peer, calls, clock, issued, started>>

---------------------------------------------------------------------------
(* Typed Facade.                                                           *)

Begin(c, op, addr, amt) == [IdleCall EXCEPT !.op = op, !.addr = addr, !.amt = amt]

(* A rejection that is entered in the RateWindow like a request. *)
Reject_counted(c, cl, msg) ==
    /\ Finish(c, cl, ValidationError(msg))
    /\ calls' = Append(calls, clock)

Reject(c, cl, msg) ==
    /\ Finish(c, cl, ValidationError(msg))
    /\ UNCHANGED calls

(* get_account without its address check. *)
get_account_unchecked(c, address) ==
    _make_request(c, Begin(c, "get_account", address, None))

get_account(c, address) ==
    LET cl == Begin(c, "get_account", address, None) IN
    IF ~validate_address(address)
    THEN Reject(c, cl, "Invalid address format")
    ELSE _make_request(c, cl)

get_account_async(c, address) ==
    LET cl == Begin(c, "get_account_async", address, None) IN
    IF ~validate_address(address)
    THEN Reject(c, cl, "Invalid address format")
    ELSE _make_async_request(c, cl)

get_balance(c, address) ==
    LET cl == Begin(c, "get_balance", address, None) IN
    IF ~validate_address(address)
    THEN Reject(c, cl, "Invalid address format")
    ELSE _make_request(c, cl)

get_balance_async(c, address) ==
    LET cl == Begin(c, "get_balance_async", address, None) IN
    IF ~validate_address(address)
    THEN Reject(c, cl, "Invalid address format")
    ELSE _make_async_request(c, cl)

create_transaction(c, to, amount) ==
    LET cl == Begin(c, "create_transaction", to, amount) IN
    IF ~validate_address(format_address(to))
    THEN Reject(c, cl, "Invalid recipient address")
    ELSE IF ~validate_amount(amount)
    THEN Reject(c, cl, "Invalid amount")
    ELSE _make_request(c, cl)

create_transaction_async(c, to, amount) ==
    LET cl == Begin(c, "create_transaction_async", to, amount) IN
    IF ~validate_address(format_address(to))
    THEN Reject(c, cl, "Invalid recipient address")
    ELSE IF ~validate_amount(amount)
    THEN Reject(c, cl, "Invalid amount")
    ELSE _make_async_request(c, cl)

estimate_fee(c, to, amount) ==
    _make_request(c, Begin(c, "estimate_fee", to, amount))

get_transactions(c, address) ==
    _make_request(c, Begin(c, "get_transactions", address, None))

get_ml_tasks(c) == _make_request(c, Begin(c, "get_ml_tasks", None, None))

get_health(c) == _make_request(c, Begin(c, "get_health", None, None))

get_health_async(c) == _make_async_request(c, Begin(c, "get_health_async", None, None))

(* The suspending operations of the facade (its "async def" methods that *)
(* go to the dispatcher), of those modelled here.                          *)
SuspendingOperations ==
    { "get_health_async", "get_account_async", "get_balance_async",
      "create_transaction_async" }

(* The facade operations the blocking caller and the suspending caller   *)
(* can call, with every argument they can pass.                            *)
FacadeCall(c) ==
    IF c = "thread"
    THEN \/ \E a \in Addresses : get_account(c, a)
         \/ \E a \in Addresses : get_balance(c, a)
         \/ \E a \in Addresses, m \in Amounts : create_transaction(c, a, m)
         \/ \E a \in Addresses, m \in Amounts : estimate_fee(c, a, m)
         \/ \E a \in Addresses \cup {None} : get_transactions(c, a)
         \/ get_health(c)
    ELSE \/ \E a \in Addresses : get_account_async(c, a)
         \/ \E a \in Addresses : get_balance_async(c, a)
         \/ \E a \in Addresses, m \in Amounts : create_transaction_async(c, a, m)
         \/ get_health_async(c)

(* A caller makes a call that goes to the dispatcher as it is (no         *)
(* argument to validate); the client serves one call at a time.            *)
Invoke(c) ==
    /\ \A d \in Callers : pc[d] = "idle"
    /\ started < MaxCalls
    /\ started' = started + 1
    /\ IF c = "thread" THEN get_health(c) ELSE get_health_async(c)
    /\ UNCHANGED <<config, limiter, transport, peer, clock, issued>>

(* The first call on a fresh client: any facade operation. *)
InvokeFirst(c) ==
    /\ \A d \in Callers : pc[d] = "idle"
    /\ started = 0
    /\ started' = 1
    /\ FacadeCall(c)
    /\ UNCHANGED <<config, limiter, transport, peer, clock, issued>>

(* The caller takes the result; its next call starts afresh. *)
Return(c) ==
    /\ pc[c] = "done"
    /\ pc' = [pc EXCEPT ![c] = "idle"]
    /\ call' = [call EXCEPT ![c] = IdleCall]
    /\ UNCHANGED <<config, limiter, transport, peer, calls, clock, issued, started>>

(* Time passes while every caller is between calls or asleep: a request  *)
(* goes out in the instant its acquire returns or its backoff ends, and a *)
(* result is taken in the instant it is returned.                          *)
Tick ==
    /\ clock < MaxTime
    /\ \A c \in DOMAIN pc : pc[c] \in {"idle", "limited", "backoff"}
    /\ clock' = clock + 1
    /\ UNCHANGED <<config, limiter, transport, peer, calls, pc, call, issued, started>>

Next ==
    \/ \E c \in Callers : Invoke(c)
    \/ \E c \in Callers : LimiterWake(c)
    \/ \E c \in Callers : Attempt(c)
    \/ \E c \in Callers : BackoffWake(c)
    \/ \E c \in Callers : Return(c)
    \/ Tick

(* The dispatcher and the rate limiter under a sequence of calls. *)
Spec == Init /\ [][Next]_vars

NextFacade ==
    \/ \E c \in Callers : InvokeFirst(c)
    \/ \E c \in Callers : Attempt(c)
    \/ \E c \in Callers : BackoffWake(c)
    \/ \E c \in Callers : Return(c)
    \/ Tick

(* One facade call, of any kind, on a fresh client. *)
SpecFacade == Init /\ [][NextFacade]_vars

(* The first call on a fresh client, straight to the dispatcher. *)
DispatchOnce(c) ==
    /\ started = 0
    /\ Invoke(c)

NextCall ==
    \/ \E c \in Callers : DispatchOnce(c)
    \/ \E c \in Callers, e \in TransportErrors : Fail(c, e)
    \/ \E c \in Callers, r \in Responses : Respond(c, r)
    \/ \E c \in Callers : BackoffWake(c)
    \/ Tick

(* One dispatcher call under every transport outcome: each attempt fails  *)
(* on the transport or gets a response of any status and body.            *)
SpecCall == Init /\ [][NextCall]_vars

(* The thread and the task call in turn, the thread first: calls 1, 3,   *)
(* .. are blocking, calls 2, 4, .. are suspending.                         *)
InvokeInTurn(c) ==
    /\ (started % 2 = 0) <=> (c = "thread")
    /\ Invoke(c)

NextMixed ==
    \/ \E c \in Callers : InvokeInTurn(c)
    \/ \E c \in Callers : LimiterWake(c)
    \/ \E c \in Callers : Attempt(c)
    \/ \E c \in Callers : BackoffWake(c)
    \/ \E c \in Callers : Return(c)
    \/ Tick

(* A sequence of calls in which blocking and suspending calls alternate. *)
SpecMixed == Init /\ [][NextMixed]_vars

---------------------------------------------------------------------------
(* Every configuration the constructor accepts.                            *)

(* ClientConfig and ParadigmClient.__init__ check no field: retries can   *)
(* be negative, rate_limit_requests and rate_limit_window can be zero.     *)
AnyConfigs ==
    { ClientConfig(r, q, w) :
        r \in (0 - 1)..MaxRetries, q \in 0..MaxQuota, w \in 0..MaxWindow }

InitAny ==
    /\ config \in AnyConfigs
    /\ limiter = RateLimiter(config.rate_limit_requests, config.rate_limit_window)
    /\ calls = <<>>
    /\ clock = 0
    /\ pc = [c \in Callers |-> "idle"]
    /\ call = [c \in Callers |-> IdleCall]
    /\ issued = <<>>
    /\ started = 0
    /\ transport = [h \in HttpClients |-> OpenClient]
    /\ peer = <<>>

(* range(retries + 1) is exhausted with no return and no raise in the     *)
(* loop (it is empty when retries is negative): the function ends and     *)
(* returns None.                                                           *)
LoopExit(c) ==
    /\ pc[c] = "attempt"
    /\ call[c].attempt > config.retries
    /\ Finish(c, call[c], Decoded(call[c].op, ReturnNone))
    /\ UNCHANGED <<config, limiter, transport, peer, calls, clock, issued, started>>

NextAny ==
    \/ \E c \in Callers : Invoke(c)
    \/ \E c \in Callers : LimiterWake(c)
    \/ \E c \in Callers : Attempt(c)
    \/ \E c \in Callers : LoopExit(c)
    \/ \E c \in Callers : BackoffWake(c)
    \/ \E c \in Callers : Return(c)
    \/ Tick

(* A sequence of calls on a client of any configuration. *)
SpecAny == InitAny /\ [][NextAny]_vars

---------------------------------------------------------------------------
(* Shutdown: close, aclose and the context managers.                       *)

(* The shutdown calls made so far, on either path. *)
Closes == transport["_client"].closes + transport["_async_client"].closes

(* httpx's close on client h: the client is closed from then on. *)
Shut(h) ==
    [transport EXCEPT ![h] = [@ EXCEPT !.is_closed = TRUE, !.closes = @ + 1]]

(* A close that fails on a client that is closed already. *)
close_once(c) ==
    /\ \A d \in Callers : pc[d] = "idle"
    /\ Closes < MaxCloses
    /\ transport' = Shut("_client")
    /\ Finish(c, Begin(c, "close", None, None),
              IF transport["_client"].is_closed
              THEN Raise("RuntimeError", "client is closed", "")
              ELSE ReturnNone)
    /\ UNCHANGED <<config, limiter, peer, calls, clock, issued, started>>

(* close(): self._client.close(), and nothing else. *)
close(c) ==
    /\ \A d \in Callers : pc[d] = "idle"
    /\ Closes < MaxCloses
    /\ transport' = Shut("_client")
    /\ Finish(c, Begin(c, "close", None, None), ReturnNone)
    /\ UNCHANGED <<config, limiter, peer, calls, clock, issued, started>>

(* aclose(): await self._async_client.aclose(), and nothing else. *)
aclose(c) ==
    /\ \A d \in Callers : pc[d] = "idle"
    /\ Closes < MaxCloses
    /\ transport' = Shut("_async_client")
    /\ Finish(c, Begin(c, "aclose", None, None), ReturnNone)
    /\ UNCHANGED <<config, limiter, peer, calls, clock, issued, started>>

(* Leaving "with client:" and "async with client:". *)
__exit__(c) == close(c)
__aexit__(c) == aclose(c)

(* The loop body on an httpx client that is closed: request raises        *)
(* RuntimeError before anything goes out, and the except clause, which    *)
(* names ConnectError and TimeoutException, lets it pass.                  *)
RequestOnClosed(c) ==
    /\ pc[c] = "attempt"
    /\ call[c].attempt <= config.retries
    /\ transport[ClientOf(c)].is_closed
    /\ Finish(c, call[c],
              Raise("RuntimeError", "Cannot send a request, as the client has been closed.", ""))
    /\ UNCHANGED <<config, limiter, transport, peer, calls, clock, issued, started>>

NextShutdown ==
    \/ \E c \in Callers : Invoke(c)
    \/ \E c \in Callers : LimiterWake(c)
    \/ \E c \in Callers : Respond(c, Served)
    \/ \E c \in Callers : RequestOnClosed(c)
    \/ \E c \in Callers : Return(c)
    \/ close("thread")
    \/ aclose("task")
    \/ __exit__("thread")
    \/ __aexit__("task")
    \/ Tick

(* A sequence of calls and shutdowns, with a server that answers every    *)
(* request with a payload.                                                 *)
SpecShutdown == Init /\ [][NextShutdown]_vars

---------------------------------------------------------------------------
(* The configuration after construction.                                   *)

ApiKeys == {"key1", "key2"}

(* A set_api_key that builds a new configuration around the key. *)
set_api_key_rebuilt(api_key) ==
    /\ config' = [ClientConfig(0, 1, 1) EXCEPT !.api_key = api_key]
    /\ transport' = [h \in HttpClients |-> [transport[h] EXCEPT !.x_api_key = api_key]]
    /\ UNCHANGED <<limiter, calls, clock, pc, call, issued, started, peer>>

(* A set_api_key that leaves out the headers of the AsyncClient. *)
set_api_key_blocking_only(api_key) ==
    /\ config' = [config EXCEPT !.api_key = api_key]
    /\ transport' = [transport EXCEPT !["_client"].x_api_key = api_key]
    /\ UNCHANGED <<limiter, calls, clock, pc, call, issued, started, peer>>

(* set_api_key: the key goes into the configuration and into the headers  *)
(* of both httpx clients.                                                  *)
set_api_key(api_key) ==
    /\ config' = [config EXCEPT !.api_key = api_key]
    /\ transport' = [h \in HttpClients |-> [transport[h] EXCEPT !.x_api_key = api_key]]
    /\ UNCHANGED <<limiter, calls, clock, pc, call, issued, started, peer>>

(* Calls whose requests are answered with a payload, and key rotations,  *)
(* in any order.                                                           *)
NextConfig ==
    \/ \E c \in Callers : Invoke(c)
    \/ \E c \in Callers : LimiterWake(c)
    \/ \E c \in Callers : Respond(c, Served)
    \/ \E c \in Callers : Return(c)
    \/ \E k \in ApiKeys : set_api_key(k)
    \/ Tick

SpecConfig == Init /\ [][NextConfig]_vars

---------------------------------------------------------------------------
(* Concurrent suspending calls.                                            *)

(* Two asyncio tasks of one event loop making suspending calls on the     *)
(* same client: a task runs without interruption from one await to the    *)
(* next, so the tasks interleave at the sleeps and at the requests.        *)
Tasks == {"task", "task2"}

InitTasks ==
    /\ config \in Configs
    /\ limiter = RateLimiter(config.rate_limit_requests, config.rate_limit_window)
    /\ calls = <<>>
    /\ clock = 0
    /\ pc = [c \in Tasks |-> "idle"]
    /\ call = [c \in Tasks |-> IdleCall]
    /\ issued = <<>>
    /\ started = 0
    /\ transport = [h \in HttpClients |-> OpenClient]
    /\ peer = <<>>

(* A task makes a suspending call while the other task may have one in    *)
(* flight.                                                                 *)
CallAsync(c) ==
    /\ pc[c] = "idle"
    /\ started < MaxCalls
    /\ started' = started + 1
    /\ get_health_async(c)
    /\ UNCHANGED <<config, limiter, transport, peer, clock, issued>>

(* A cancellation after which the timestamp is appended all the same, as *)
(* an append in a finally clause would do.                                 *)
CancelWait_recorded(c) ==
    /\ pc[c] = "limited"
    /\ calls' = Append(calls, call[c].now)
    /\ Finish(c, call[c], Raise("CancelledError", "", ""))
    /\ UNCHANGED <<config, limiter, transport, peer, clock, issued, started>>

(* The task is cancelled while it awaits asyncio.sleep(sleep_time) in     *)
(* async_wait_if_needed: CancelledError is raised at the await and leaves  *)
(* the call, the append after the sleep is not reached.                    *)
CancelWait(c) ==
    /\ pc[c] = "limited"
    /\ Finish(c, call[c], Raise("CancelledError", "", ""))
    /\ UNCHANGED <<config, limiter, transport, peer, calls, clock, issued, started>>

NextTasks ==
    \/ \E c \in Tasks : CallAsync(c)
    \/ \E c \in Tasks : LimiterWake(c)
    \/ \E c \in Tasks : CancelWait(c)
    \/ \E c \in Tasks : Respond(c, Served)
    \/ \E c \in Tasks : Return(c)
    \/ Tick

(* Suspending calls of two tasks in flight at the same time. *)
SpecTasks == InitTasks /\ [][NextTasks]_vars

---------------------------------------------------------------------------
(* Two clients.                                                            *)

(* Client A is the client of the other specifications, with its           *)
(* RateLimiter's list in calls; B is a second ParadigmClient made with an *)
(* equal configuration, with its RateLimiter's list in peer.              *)
Clients == {"A", "B"}

(* A single RateLimiter that every client uses. *)
_rate_limiter_shared(client) == "A"

(* self._rate_limiter of a client: the RateLimiter its __init__ made, with *)
(* the list its own __init__ made.                                         *)
_rate_limiter(client) == client

(* self.calls of the RateLimiter of client k, read and assigned. *)
Window(k) == IF k = "A" THEN calls ELSE peer

SetWindow(k, w) ==
    IF k = "A"
    THEN calls' = w /\ peer' = peer
    ELSE peer' = w /\ calls' = calls

(* get_health_async on client B, up to the await of asyncio.sleep in the  *)
(* acquire of B's RateLimiter.                                             *)
PeerCall(c) ==
    /\ pc[c] = "idle"
    /\ started < MaxCalls
    /\ started' = started + 1
    /\ LET cl == Begin(c, "get_health_async", None, None)
           k == _rate_limiter("B")
           now == clock
           pruned == Kept(Window(k), now)
       IN  IF Len(pruned) >= limiter.requests
           THEN IF pruned = <<>>
                THEN /\ SetWindow(k, pruned)
                     /\ Finish(c, cl, Raise("IndexError", "list index out of range", ""))
                ELSE LET sleep_time == limiter.window - (now - pruned[1]) IN
                     IF sleep_time > 0
                     THEN /\ SetWindow(k, pruned)
                          /\ pc' = [pc EXCEPT ![c] = "limited"]
                          /\ call' = [call EXCEPT ![c] =
                                 [cl EXCEPT !.now = now, !.wake = clock + sleep_time]]
                     ELSE /\ SetWindow(k, Append(pruned, now))
                          /\ pc' = [pc EXCEPT ![c] = "attempt"]
                          /\ call' = [call EXCEPT ![c] = [cl EXCEPT !.acquires = @ + 1]]
           ELSE /\ SetWindow(k, Append(pruned, now))
                /\ pc' = [pc EXCEPT ![c] = "attempt"]
                /\ call' = [call EXCEPT ![c] = [cl EXCEPT !.acquires = @ + 1]]
    /\ UNCHANGED <<config, limiter, transport, clock, issued>>

(* After the sleep in the acquire of B's RateLimiter. *)
PeerWake(c) ==
    /\ pc[c] = "limited"
    /\ clock >= call[c].wake
    /\ SetWindow(_rate_limiter("B"), Append(Window(_rate_limiter("B")), call[c].now))
    /\ pc' = [pc EXCEPT ![c] = "attempt"]
    /\ call' = [call EXCEPT ![c] =
           [@ EXCEPT !.acquires = @ + 1, !.now = 0, !.wake = 0]]
    /\ UNCHANGED <<config, limiter, transport, clock, issued, started>>

(* The task "task" calls client A, the task "task2" calls client B. *)
NextTwo ==
    \/ CallAsync("task")
    \/ LimiterWake("task")
    \/ PeerCall("task2")
    \/ PeerWake("task2")
    \/ \E c \in Tasks : Respond(c, Served)
    \/ \E c \in Tasks : Return(c)
    \/ Tick

(* Two clients in use at the same time. *)
SpecTwo == InitTasks /\ [][NextTwo]_vars

(* ---------------------------------------------------------------------- *)
(* The RateWindow under the acquires of two tasks.                         *)

(* A task makes one more suspending call, its acquire running while the   *)
(* other task may be asleep in its own.                                    *)
CallAgain(c) ==
    /\ pc[c] = "idle"
    /\ started < MaxAcquires
    /\ started' = started + 1
    /\ get_health_async(c)
    /\ UNCHANGED <<config, limiter, transport, peer, clock, issued>>

NextWindow ==
    \/ \E c \in Tasks : CallAgain(c)
    \/ \E c \in Tasks : LimiterWake(c)
    \/ \E c \in Tasks : Respond(c, Served)
    \/ \E c \in Tasks : Return(c)
    \/ Tick

(* A longer sequence of suspending calls of two tasks. *)
SpecWindow == InitTasks /\ [][NextWindow]_vars

(* ---------------------------------------------------------------------- *)
(* Rejected calls among served ones.                                       *)

(* After a first call that was served, a caller makes any facade call,   *)
(* with any arguments.                                                     *)
InvokeAny(c) ==
    /\ \A d \in Callers : pc[d] = "idle"
    /\ started = 1
    /\ started' = 2
    /\ FacadeCall(c)
    /\ UNCHANGED <<config, limiter, transport, peer, clock, issued>>

NextReject ==
    \/ \E c \in Callers : DispatchOnce(c)
    \/ \E c \in Callers : InvokeAny(c)
    \/ \E c \in Callers : LimiterWake(c)
    \/ \E c \in Callers : Respond(c, Served)
    \/ \E c \in Callers : Return(c)
    \/ Tick

(* A call that is served and then a facade call of any kind, rejected or *)
(* served.                                                                 *)
SpecReject == Init /\ [][NextReject]_vars

(* ---------------------------------------------------------------------- *)
(* Paginated operations.                                                   *)

(* The answers of the server to a paginated request: a success status     *)
(* with a pagination payload, well formed or not, with a payload that is  *)
(* no page at all, or with no payload.                                     *)
PageReplies ==
    [ status_code : {200},
      text : PageBodies \cup {"{success:true,data:D1}", "{success:true}"} ]

(* The blocking caller asks for a page of transactions or of ML tasks,   *)
(* on a fresh client.                                                      *)
PageCall(c) ==
    /\ \A d \in Callers : pc[d] = "idle"
    /\ started = 0
    /\ started' = 1
    /\ \/ \E a \in {None, "PAR1ok"} :
             get_transactions(c, a)
       \/ get_ml_tasks(c)
    /\ UNCHANGED <<config, limiter, transport, peer, clock, issued>>

NextPage ==
    \/ PageCall("thread")
    \/ \E r \in PageReplies : Respond("thread", r)
    \/ Return("thread")
    \/ Tick

(* One paginated call, answered with a page. *)
SpecPage == Init /\ [][NextPage]_vars

---------------------------------------------------------------------------
(* Properties.                                                             *)

Done(c) == pc[c] = "done"

(* The requests that follow an acquire: the first attempt of each call. *)
Admitted == { j \in 1..Len(issued) : issued[j].attempt = 0 }

(* C1: no interval of rate_limit_window seconds holds more than           *)
(* rate_limit_requests admitted requests, a request counting at the time  *)
(* it is issued after its acquire has returned.                            *)
C1_QuotaPerWindow ==
    \A i \in Admitted :
        Cardinality({ j \in Admitted :
            /\ issued[i].time <= issued[j].time
            /\ issued[j].time < issued[i].time + config.rate_limit_window })
          <= config.rate_limit_requests

(* The times of the attempts of the call in flight: the last http entries *)
(* of issued (the client serves one call at a time).                       *)
SentAt(c, k) == issued[Len(issued) - call[c].http + k].time

(* C2: a call all of whose attempts end in a connect or timeout failure  *)
(* makes retries + 1 attempts and ends in NetworkError; before attempt    *)
(* k + 1 it sleeps 2^k seconds, and it sleeps after no other attempt.     *)
C2_RetriesThenNetworkError ==
    \A c \in Callers :
        /\ \A k \in 1..Len(call[c].waits) : call[c].waits[k] = Pow2(k - 1)
        /\ \A k \in 1..(call[c].http - 1) :
               SentAt(c, k + 1) - SentAt(c, k) >= Pow2(k - 1)
        /\ (Done(c) /\ call[c].http > 0 /\ call[c].fails = call[c].http
                /\ call[c].result.kind \notin TransportErrors)
           => /\ call[c].http = config.retries + 1
              /\ call[c].result.kind = "NetworkError"
              /\ Len(call[c].waits) = config.retries

C2_Witness ==
    \E c \in Callers :
        /\ Done(c)
        /\ config.retries = 2
        /\ call[c].fails = 3
        /\ call[c].waits = <<1, 2>>
        /\ call[c].result.kind = "NetworkError"

(* C3: every HTTP attempt of a call follows an acquire of its own: a     *)
(* call that has ended made as many acquires as HTTP attempts.             *)
C3_AcquirePerAttempt ==
    \A c \in Callers : Done(c) => call[c].acquires = call[c].http

(* C4: an attempt that gets a response ends the call: the call is over,  *)
(* the response came on its last attempt, every earlier attempt failed on *)
(* the transport, and no backoff wait follows the response.               *)
C4_ResponseEndsCall ==
    \A c \in Callers :
        call[c].resp # NoResponse
        => /\ Done(c)
           /\ call[c].http = call[c].fails + 1
           /\ Len(call[c].waits) = call[c].fails
           /\ call[c].wake = 0

C4_Witness ==
    \E c \in Callers :
        /\ Done(c)
        /\ call[c].resp.status_code = 500
        /\ call[c].fails = 1
        /\ call[c].http = 2
        /\ call[c].result.kind = "ParadigmError"

(* The response a call got, and its body as json.loads reads it. *)
Responded(c) == call[c].resp # NoResponse
Status(c) == call[c].resp.status_code
Parsed(c) == Json(call[c].resp.text)
HasEnvelope(c) == Responded(c) /\ Parsed(c).type = "dict"
Envelope(c) == Parsed(c).value

(* C5: a response with status 429 gives RateLimitError, whatever its body. *)
C5_429IsRateLimitError ==
    \A c \in Callers :
        (Responded(c) /\ Status(c) = 429) => call[c].result.kind = "RateLimitError"

(* C6: a response with status below 400 whose envelope has success=false *)
(* and an error object with a message and a code gives ParadigmError with *)
(* that message and that code, after exactly one HTTP attempt when it is  *)
(* the answer to the first attempt.                                        *)
C6_EnvelopeErrorCarried ==
    \A c \in Callers :
        ( /\ HasEnvelope(c)
          /\ Status(c) < 400
          /\ "success" \in DOMAIN Envelope(c)
          /\ Envelope(c).success = FALSE
          /\ "error" \in DOMAIN Envelope(c)
          /\ {"message", "code"} \subseteq DOMAIN Envelope(c).error )
        => /\ call[c].result.kind = "ParadigmError"
           /\ call[c].result.message = Envelope(c).error.message
           /\ call[c].result.code = Envelope(c).error.code
           /\ call[c].fails = 0 => call[c].http = 1

(* C7: a response with status below 400 whose envelope has success=true  *)
(* and a data field d ends the call with the payload d, field for field.  *)
C7_PayloadIsData ==
    \A c \in Callers :
        ( /\ HasEnvelope(c)
          /\ Status(c) < 400
          /\ "success" \in DOMAIN Envelope(c)
          /\ Envelope(c).success = TRUE
          /\ "data" \in DOMAIN Envelope(c) )
        => /\ Done(c)
           /\ call[c].result.kind = "payload"
           /\ call[c].result.payload = Envelope(c).data
           /\ DOMAIN call[c].result.payload = DOMAIN Envelope(c).data

C7_Witness ==
    \E c \in Callers :
        /\ Done(c)
        /\ call[c].resp = [status_code |-> 399, text |-> "{success:true,data:D2}"]
        /\ call[c].result.payload = [id |-> 2, balance |-> 7]

(* C8: the status is looked at before the envelope's success flag.  A     *)
(* response with an envelope and a status of 400 or more other than 429   *)
(* gives ParadigmError, also when the envelope says success=true and has  *)
(* data; no response with such a status gives a payload; a payload comes  *)
(* only from a status below 400 with success=true.                        *)
C8_StatusBeforeSuccess ==
    \A c \in Callers :
        Responded(c)
        => /\ (Status(c) >= 400 /\ Status(c) # 429)
              => /\ call[c].result.kind # "payload"
                 /\ HasEnvelope(c) => call[c].result.kind = "ParadigmError"
           /\ call[c].result.kind = "payload"
              => /\ Status(c) < 400
                 /\ HasEnvelope(c)
                 /\ "success" \in DOMAIN Envelope(c)
                 /\ Envelope(c).success = TRUE

C8_Witness ==
    \E c \in Callers :
        /\ Done(c)
        /\ Status(c) = 400
        /\ HasEnvelope(c)
        /\ Get(Envelope(c), "success", FALSE) = TRUE
        /\ "data" \in DOMAIN Envelope(c)
        /\ call[c].result.kind = "ParadigmError"

(* The operations that check the address they are given. *)
AddressValidated ==
    { "get_account", "get_account_async", "get_balance", "get_balance_async",
      "create_transaction", "create_transaction_async" }

TakesAddress == AddressValidated \cup {"estimate_fee", "get_transactions"}
TakesAmount == {"create_transaction", "create_transaction_async", "estimate_fee"}

(* The call has a malformed address (for get_transactions: an address     *)
(* filter, which the empty string is not) or a malformed amount.          *)
Malformed(c) ==
    \/ /\ call[c].op \in TakesAddress
       /\ call[c].addr # None
       /\ call[c].op = "get_transactions" => call[c].addr # ""
       /\ ~validate_address(call[c].addr)
    \/ /\ call[c].op \in TakesAmount
       /\ ~validate_amount(call[c].amt)

(* C10: every facade operation that takes an address or an amount checks *)
(* it before dispatch: a malformed one ends the call in ValidationError   *)
(* with no HTTP request.                                                   *)
C10_ArgumentsCheckedBeforeDispatch ==
    \A c \in Callers :
        (pc[c] # "idle" /\ Malformed(c))
        => /\ Done(c)
           /\ call[c].result.kind = "ValidationError"
           /\ call[c].http = 0

(* The entries of the RateWindow that a prune at the present time keeps. *)
Live == { i \in 1..Len(calls) : clock - calls[i] < config.rate_limit_window }

(* C11: the prune-check-record sequence of an acquire is atomic with      *)
(* respect to the other callers, so that two callers never both take the  *)
(* last free slot: the RateWindow never holds more live entries than      *)
(* rate_limit_requests.                                                    *)
C11_SlotTakenOnce ==
    Cardinality(Live) <= config.rate_limit_requests

(* C12: the blocking and the suspending acquire keep one account.  An     *)
(* acquire by either caller, at the same time on the same RateWindow,     *)
(* leaves the same window and imposes the same wait: it prunes the        *)
(* entries window seconds old; if rate_limit_requests entries are left it *)
(* waits until the oldest is window seconds old, and otherwise it records *)
(* the present time and is admitted.                                       *)
C12_OneAccount ==
    [][ \A c \in Callers :
          (pc[c] = "idle" /\ pc'[c] # "idle")
          => LET pruned == Prune(clock)
                 full == Len(pruned) >= config.rate_limit_requests
                 sleep_time == IF full
                               THEN config.rate_limit_window - (clock - pruned[1])
                               ELSE 0
             IN  IF sleep_time > 0
                 THEN /\ pc'[c] = "limited"
                      /\ calls' = pruned
                      /\ call'[c].wake - clock = sleep_time
                 ELSE /\ pc'[c] = "attempt"
                      /\ calls' = Append(pruned, clock) ]_vars

(* The second call, a suspending one, waits for the slot the first call,  *)
(* a blocking one, has taken.                                              *)
C12_Witness ==
    /\ started = 2
    /\ pc["task"] = "limited"
    /\ calls # <<>>
    /\ call["task"].wake > clock

(* The calls of the other tasks stand as they stood. *)
OthersUntouched(c) ==
    \A d \in Tasks \ {c} : pc'[d] = pc[d] /\ call'[d] = call[d]

(* C13: a suspending call cancelled while it waits for admission records  *)
(* no entry, and the other calls are admitted and wait as if it had never *)
(* been made.  Going to sleep, the call leaves of the RateWindow what     *)
(* every later prune would keep of it anyway; cancelled, it leaves the    *)
(* window as it is; neither step issues a request or touches the call of  *)
(* another task.  An entry is recorded only by a call that goes on to     *)
(* issue its request.                                                      *)
C13_CancelledLeavesNoTrace ==
    [][ \A c \in Tasks :
          /\ (pc[c] = "idle" /\ pc'[c] = "limited")
             => /\ \A t \in clock..MaxTime : Kept(calls', t) = Kept(calls, t)
                /\ Len(calls') <= Len(calls)
                /\ issued' = issued
                /\ OthersUntouched(c)
          /\ (pc[c] = "limited" /\ call'[c].result.kind = "CancelledError")
             => /\ calls' = calls
                /\ issued' = issued
                /\ call'[c].acquires = 0
                /\ call'[c].http = 0
                /\ OthersUntouched(c)
          /\ (call'[c] # call[c] /\ Len(calls') > Len(calls))
             => /\ pc'[c] = "attempt"
                /\ call'[c].acquires = 1
                /\ call'[c].http = 0 ]_vars

(* A call has been cancelled in its wait while the call of the other task *)
(* waits for admission too.                                                *)
C13_Witness ==
    /\ pc["task"] = "done"
    /\ call["task"].result.kind = "CancelledError"
    /\ pc["task2"] = "limited"
    /\ calls # <<>>

(* close or aclose has been called on the client. *)
ShutDown == \E h \in HttpClients : transport[h].is_closed

Shutdowns == {"close", "aclose"}

(* C14: after close or aclose every later call, blocking or suspending,   *)
(* fails at once: it ends in an error, issues no HTTP request and records *)
(* no RateWindow entry.                                                    *)
C14_NoCallAfterShutdown ==
    ShutDown
    => \A c \in Callers :
         (pc[c] # "idle" /\ call[c].op \notin Shutdowns)
         => /\ Done(c)
            /\ call[c].result.kind \notin {"payload", "None"}
            /\ call[c].http = 0
            /\ call[c].acquires = 0

(* C15: shutdown is idempotent on both paths.  A call of close or aclose, *)
(* the first or a later one, raises nothing and leaves the httpx client   *)
(* it closes in the closed state of the first call; it changes nothing    *)
(* else of the client.                                                     *)
C15_ShutdownIdempotent ==
    [][ \A h \in HttpClients :
          transport'[h].closes > transport[h].closes
          => /\ transport'[h].is_closed
             /\ \A g \in HttpClients \ {h} : transport'[g] = transport[g]
             /\ \E c \in Callers :
                   /\ pc'[c] = "done"
                   /\ call'[c].op \in Shutdowns
                   /\ call'[c].result = ReturnNone
             /\ UNCHANGED <<config, limiter, calls, issued, started>> ]_vars

(* close has been called a second time, on a client closed already. *)
C15_Witness ==
    /\ transport["_client"].closes = 2
    /\ transport["_client"].is_closed
    /\ pc["thread"] = "done"
    /\ call["thread"].op = "close"
    /\ call["thread"].result = ReturnNone

(* The states of a dispatcher call: Idle is "idle" and, while the acquire *)
(* sleeps, "limited"; Attempting(k) is "attempt" and RetryWait(k) is      *)
(* "backoff" with attempt index k; Success and Fail are "done".           *)
Attempting(c, k) == pc[c] = "attempt" /\ call[c].attempt = k
RetryWait(c, k) == pc[c] = "backoff" /\ call[c].attempt = k

(* C16: a dispatcher call moves only Idle -> Attempting(0),               *)
(* Attempting(k) -> Success or Fail, Attempting(k) -> RetryWait(k) ->      *)
(* Attempting(k+1).  The attempt index stays within 0..retries;           *)
(* RetryWait(k) is entered only from Attempting(k), by a request that     *)
(* failed with ConnectError or TimeoutException, with k < retries; a call *)
(* that has reached Success or Fail makes no request and no wait.         *)
C16_DispatcherTransitions ==
    [][ \A c \in Callers :
          /\ call'[c].attempt \in 0..config.retries
          /\ (pc'[c] # pc[c] \/ call'[c] # call[c])
             => LET k == call[c].attempt IN
                CASE pc[c] = "idle" ->
                       /\ pc'[c] \in {"limited", "attempt"}
                       /\ call'[c].attempt = 0
                       /\ call'[c].http = 0
                  [] pc[c] = "limited" ->
                       /\ pc'[c] = "attempt"
                       /\ call'[c].attempt = 0
                       /\ call'[c].http = 0
                  [] pc[c] = "attempt" ->
                       /\ call'[c].http = call[c].http + 1
                       /\ call'[c].attempt = k
                       /\ \/ /\ pc'[c] = "done"
                             /\ call'[c].waits = call[c].waits
                             /\ call'[c].cause \in Retried => k = config.retries
                          \/ /\ pc'[c] = "backoff"
                             /\ k < config.retries
                             /\ call'[c].cause \in Retried
                             /\ call'[c].fails = call[c].fails + 1
                             /\ Len(call'[c].waits) = Len(call[c].waits) + 1
                  [] pc[c] = "backoff" ->
                       /\ pc'[c] = "attempt"
                       /\ call'[c].attempt = k + 1
                       /\ call'[c].http = call[c].http
                       /\ call'[c].waits = call[c].waits
                  [] pc[c] = "done" ->
                       /\ pc'[c] = "idle"
                       /\ call'[c] = IdleCall
                       /\ issued' = issued ]_vars

(* RetryWait(1) after a timeout, with one more attempt left. *)
C16_Witness ==
    /\ config.retries = 2
    /\ RetryWait("task", 1)
    /\ call["task"].cause = "TimeoutException"
    /\ call["task"].http = 2

(* C17: a dispatcher call never returns without either a payload or an    *)
(* error, for every configuration the constructor accepts: a call that    *)
(* has ended has not returned None.                                        *)
C17_NeverReturnsNone ==
    \A c \in Callers : Done(c) => call[c].result # ReturnNone

(* The name the suspending twin of a blocking operation goes by. *)
Twin(op) == op \o "_async"

(* C18: every synchronous facade operation has a suspending twin: the     *)
(* operation of a blocking call in flight is one whose twin the facade    *)
(* has.                                                                    *)
C18_EveryOperationHasTwin ==
    \A c \in Callers :
        (pc[c] # "idle" /\ call[c].op \notin SuspendingOperations)
        => Twin(call[c].op) \in SuspendingOperations

(* The four classified errors. *)
Classified == {"ValidationError", "NetworkError", "RateLimitError", "ParadigmError"}

(* C19: every failing call surfaces one of the four classified errors: a  *)
(* call that has ended has a payload or one of ValidationError,           *)
(* NetworkError, RateLimitError and ParadigmError, whatever the transport *)
(* raised and whatever the body of the response was.                       *)
C19_EveryFailureClassified ==
    \A c \in Callers :
        (Done(c) /\ call[c].result.kind # "payload")
        => call[c].result.kind \in Classified

(* A step of the call of task c. *)
StepOf(c) == pc'[c] # pc[c] \/ call'[c] # call[c]

(* C20: two client instances share no rate-limiting state.  A step of a   *)
(* call on client A leaves the RateWindow of client B as it is, and a     *)
(* step of a call on B leaves A's; the wait an acquire on B imposes is    *)
(* given by B's own window, the time and the configuration, whatever A's  *)
(* window holds.                                                           *)
C20_ClientsIndependent ==
    [][ /\ StepOf("task") => peer' = peer
        /\ StepOf("task2") => calls' = calls
        /\ (pc["task2"] = "idle" /\ pc'["task2"] # "idle")
           => LET pruned == Kept(peer, clock)
                  full == Len(pruned) >= config.rate_limit_requests
                  sleep_time == IF full
                                THEN config.rate_limit_window - (clock - pruned[1])
                                ELSE 0
              IN  IF sleep_time > 0
                  THEN /\ pc'["task2"] = "limited"
                       /\ peer' = pruned
                       /\ call'["task2"].wake - clock = sleep_time
                  ELSE /\ pc'["task2"] = "attempt"
                       /\ peer' = Append(pruned, clock) ]_vars

(* A call on B waits for a slot of B's window while A's window, after     *)
(* calls on A, holds other entries.                                        *)
C20_Witness ==
    /\ pc["task2"] = "limited"
    /\ peer # <<>>
    /\ calls # <<>>
    /\ calls # peer

(* The fields of ClientConfig other than the API key. *)
FixedFields ==
    { "base_url", "timeout", "retries", "network",
      "rate_limit_requests", "rate_limit_window" }

(* C21: after construction no operation of the client changes base_url,   *)
(* timeout, retries, network, rate_limit_requests or rate_limit_window of *)
(* the configuration, nor the requests and window the RateLimiter holds;  *)
(* set_api_key changes the API key and nothing else of the configuration. *)
C21_ConfigFixedButKey ==
    [][ /\ \A f \in FixedFields : config'[f] = config[f]
        /\ DOMAIN config' = DOMAIN config
        /\ limiter' = limiter ]_vars

(* The key has been rotated on a client that has served a call, while a   *)
(* call waits for admission.                                               *)
C21_Witness ==
    /\ config.api_key = "key2"
    /\ transport["_client"].x_api_key = "key2"
    /\ started = 2
    /\ \E c \in Callers : pc[c] = "limited"
    /\ limiter = RateLimiter(config.rate_limit_requests, config.rate_limit_window)

(* C22: in every state of a constructed client the configuration has      *)
(* retries >= 0, timeout > 0, rate_limit_requests > 0 and                 *)
(* rate_limit_window > 0.                                                  *)
C22_ConfigWellFormed ==
    /\ config.retries >= 0
    /\ config.timeout > 0
    /\ config.rate_limit_requests > 0
    /\ config.rate_limit_window > 0

(* C23: the acquire of the rate limiter never fails, for every quota and  *)
(* window the client accepts: no call ends in an error raised by          *)
(* wait_if_needed or async_wait_if_needed, that is, before its acquire    *)
(* has returned and with no request made.                                  *)
C23_AcquireNeverRaises ==
    \A c \in Callers :
        Done(c) => ~(call[c].acquires = 0 /\ call[c].http = 0
                       /\ call[c].result.kind = "IndexError")

(* A paginated call that has returned a page. *)
Paged(c) ==
    /\ Done(c)
    /\ call[c].op \in PaginatedOperations
    /\ call[c].result.kind = "payload"

(* The invariants of a page. *)
PageInvariants(p) ==
    /\ Len(p.items) <= p.page_size
    /\ p.has_next = (p.page < p.total_pages)
    /\ p.has_prev = (p.page > 1)

(* C24, as the code has it: the page a paginated operation returns has    *)
(* the items, total_count, page, page_size, total_pages, has_next and     *)
(* has_prev of the server's payload, unchanged; so it satisfies           *)
(* items.length <= page_size, has_next = (page < total_pages) and         *)
(* has_prev = (page > 1) exactly when the server's payload does.           *)
C24_PageAsServed ==
    \A c \in Callers :
        Paged(c) =>
            LET sent == Envelope(c).data
                got == call[c].result.payload
            IN /\ Len(got.items) = Len(sent.items)
               /\ \A k \in 2..Len(PageKeys) : got[PageKeys[k]] = sent[PageKeys[k]]
               /\ PageInvariants(got) <=> PageInvariants(sent)

(* A last page of a well-behaved server has been returned, and it         *)
(* satisfies the invariants.                                               *)
C24_Witness ==
    \E c \in Callers :
        /\ Paged(c)
        /\ Envelope(c).data = PageLast
        /\ call[c].result.payload.has_prev
        /\ PageInvariants(call[c].result.payload)

(* C24 as stated: every page a paginated operation returns satisfies      *)
(* items.length <= page_size, has_next = (page < total_pages) and         *)
(* has_prev = (page > 1).                                                  *)
C24_PageInvariantsHold ==
    \A c \in Callers : Paged(c) => PageInvariants(call[c].result.payload)

(* The payload of the response lacks a key of the pagination shape or has *)
(* an item that is no record of the item class.                            *)
MalformedPage(c) ==
    /\ Done(c)
    /\ call[c].op \in PaginatedOperations
    /\ Responded(c)
    /\ _handle_response(call[c].resp).kind = "payload"
    /\ LET data == _handle_response(call[c].resp).payload IN
       \/ \E k \in 1..Len(PageKeys) : PageKeys[k] \notin DOMAIN data
       \/ \E i \in 1..Len(data.items) : DOMAIN data.items[i] # {"hash"}

(* C25: a paginated operation whose payload lacks a key of the pagination *)
(* shape (or whose item lacks a field of its record) fails with           *)
(* NetworkError.                                                           *)
C25_MalformedPayloadIsNetworkError ==
    \A c \in Callers :
        MalformedPage(c) => call[c].result.kind = "NetworkError"

(* The acquire of c's call has just returned: the call is about to make  *)
(* its first attempt (no time passes between the two).                     *)
JustAdmitted(c) ==
    /\ pc[c] = "attempt"
    /\ call[c].acquires = 1
    /\ call[c].http = 0

(* C26: the timestamp an acquire records is the time at which it returns, *)
(* not the time at which it was called: when one call at a time is made,  *)
(* the last entry of the RateWindow of a call just admitted is the        *)
(* present time.                                                           *)
C26_RecordsAdmissionTime ==
    \A c \in Callers :
        JustAdmitted(c) => calls # <<>> /\ calls[Len(calls)] = clock

(* C27: when an acquire returns, the RateWindow, with the entry just      *)
(* recorded, holds at most rate_limit_requests entries.                    *)
C27_WindowWithinQuotaOnReturn ==
    \A c \in Callers :
        JustAdmitted(c) => Len(calls) <= limiter.requests

(* C30: the RateWindow is ordered by time in every reachable state, also *)
(* when several suspending callers wait and record concurrently: no entry *)
(* is earlier than the entry before it, so calls[0] is the oldest.         *)
C30_WindowOrdered ==
    \A i \in 1..(Len(calls) - 1) : calls[i] <= calls[i + 1]

(* The timestamps of the RateWindow that are less than window seconds    *)
(* old at the present time.                                                *)
Remaining == { i \in 1..Len(calls) : clock - calls[i] < limiter.window }

(* The earliest of them. *)
oldest_entry ==
    CHOOSE t \in { calls[i] : i \in Remaining } :
        \A i \in Remaining : t <= calls[i]

(* C28: an acquire that finds fewer than rate_limit_requests entries in   *)
(* the pruned RateWindow is admitted with no wait; one that finds         *)
(* rate_limit_requests or more waits max(0, window - (now - oldest_entry)) *)
(* seconds, oldest_entry being the earliest timestamp that remains.        *)
C28_WaitsForOldest ==
    [][ \A c \in Tasks :
          (pc[c] = "idle" /\ pc'[c] # "idle")
          => IF Cardinality(Remaining) < limiter.requests
             THEN pc'[c] = "attempt"
             ELSE LET wait == limiter.window - (clock - oldest_entry) IN
                  IF wait > 0
                  THEN pc'[c] = "limited" /\ call'[c].wake - clock = wait
                  ELSE pc'[c] = "attempt" ]_vars

(* The number of entries of the window w with the timestamp t. *)
Count(w, t) == Cardinality({ i \in 1..Len(w) : w[i] = t })

(* C29: an acquire prunes before it checks.  The RateWindow it checks     *)
(* (the one it leaves when it goes to sleep, or the one it appends its    *)
(* timestamp to when it admits at once) has no timestamp t with           *)
(* now - t >= window, and has every entry of the window before that was   *)
(* less than window seconds old.                                           *)
C29_PruneBeforeCheck ==
    [][ \A c \in Tasks :
          (pc[c] = "idle" /\ pc'[c] \in {"limited", "attempt"})
          => LET left == IF pc'[c] = "attempt"
                         THEN SubSeq(calls', 1, Len(calls') - 1)
                         ELSE calls'
             IN /\ \A i \in 1..Len(left) : clock - left[i] < limiter.window
                /\ \A t \in 0..clock :
                       clock - t < limiter.window => Count(left, t) = Count(calls, t)
                /\ Len(left) >= limiter.requests <=> pc'[c] = "limited" ]_vars

(* Two calls have been admitted, the first has made its request, and the *)
(* RateWindow holds the timestamp of the second only: its acquire pruned  *)
(* the entry of the first.                                                 *)
C29_Witness ==
    \E c \in Tasks :
        /\ JustAdmitted(c)
        /\ Len(issued) = 1
        /\ started = 2
        /\ calls = <<clock>>
        /\ clock >= limiter.window

(* C31: a response with an envelope and a status of 400 or more other   *)
(* than 429 gives ParadigmError with the envelope's error.message and     *)
(* error.code where the envelope has them, and with "Unknown error" and    *)
(* "UNKNOWN" where the error object or the field is absent.                *)
C31_StatusErrorCarried ==
    \A c \in Callers :
        (HasEnvelope(c) /\ Status(c) >= 400 /\ Status(c) # 429)
        => LET error == Get(Envelope(c), "error", EmptyDict) IN
           /\ Done(c)
           /\ call[c].result.kind = "ParadigmError"
           /\ call[c].result.message =
                  (IF "message" \in DOMAIN error THEN error.message
                                                 ELSE "Unknown error")
           /\ call[c].result.code =
                  (IF "code" \in DOMAIN error THEN error.code ELSE "UNKNOWN")

(* A 500 whose error object has a message and no code has given           *)
(* ParadigmError with that message and the code "UNKNOWN".                 *)
C31_Witness ==
    \E c \in Callers :
        /\ Done(c)
        /\ call[c].resp = [status_code |-> 500,
                           text |-> "{success:false,error:{message:x}}"]
        /\ call[c].result = ParadigmError("x", "UNKNOWN")

(* C32: a response with a status other than 429 whose body is not the   *)
(* wire envelope (no JSON, or JSON that is no object) gives NetworkError,  *)
(* and the response is not retried: the call is over after the attempt     *)
(* that got it.                                                            *)
C32_BadBodyIsNetworkError ==
    \A c \in Callers :
        (Responded(c) /\ Status(c) # 429 /\ ~HasEnvelope(c))
        => /\ Done(c)
           /\ call[c].result.kind = "NetworkError"
           /\ call[c].http = call[c].fails + 1

(* C33: a call whose attempts 0..j-1 end in connect or timeout failures  *)
(* and whose attempt j gets a response ends with what _handle_response     *)
(* makes of that response, after j + 1 attempts and the backoff waits      *)
(* 2^0, .., 2^(j-1): the failures before do not change the result.         *)
C33_ResponseAfterFailures ==
    \A c \in Callers :
        Responded(c)
        => /\ Done(c)
           /\ call[c].result = _handle_response(call[c].resp)
           /\ call[c].fails <= config.retries
           /\ call[c].http = call[c].fails + 1
           /\ Len(call[c].waits) = call[c].fails
           /\ \A k \in 1..Len(call[c].waits) : call[c].waits[k] = Pow2(k - 1)

(* Two attempts have failed, with waits of 1 and 2 seconds, and the third *)
(* has got a payload.                                                      *)
C33_Witness ==
    \E c \in Callers :
        /\ Done(c)
        /\ call[c].fails = 2
        /\ call[c].http = 3
        /\ call[c].waits = <<1, 2>>
        /\ call[c].resp = [status_code |-> 200, text |-> "{success:true,data:D2}"]
        /\ call[c].result = Return_(Data2)

(* The k-th request of the call in flight, of its http requests so far   *)
(* (the client serves one call at a time).                                 *)
Sent(c, k) == issued[Len(issued) - call[c].http + k]

(* C34: every attempt of a dispatcher call puts on the transport a        *)
(* request with the method, path, query parameters and body of the first  *)
(* attempt, and each attempt 0, 1, .. is put on the transport: none is    *)
(* altered, none is left out as a duplicate.                               *)
C34_RetriesIdentical ==
    \A c \in Callers :
        \A k \in 1..call[c].http :
            /\ Sent(c, k).request = Sent(c, 1).request
            /\ Sent(c, k).attempt = k - 1

(* A create_transaction has put its request with its body on the          *)
(* transport three times.                                                  *)
C34_Witness ==
    \E c \in Callers :
        /\ call[c].op = "create_transaction"
        /\ call[c].http = 3
        /\ Sent(c, 3).request.method = "POST"
        /\ Sent(c, 3).request.json = "{to:PAR1ok,amount:10}"

(* C35: a suspending call yields to the other tasks in its admission     *)
(* wait and in its backoff wait only: while its HTTP exchange is in       *)
(* progress (the call is at its attempt) no other task takes a step.       *)
C35_YieldsOnlyAtWaits ==
    [][ \A c \in Tasks :
          pc[c] = "attempt"
          => \A d \in Tasks \ {c} : pc'[d] = pc[d] /\ call'[d] = call[d] ]_vars

(* C36: a paginated operation does not alter the pagination data of the  *)
(* server: the page it returns has the payload's total_count, page,        *)
(* page_size, total_pages, has_next and has_prev and the payload's items,  *)
(* as many and in the same order, also when the payload violates the       *)
(* invariants of a page; for the payload with total_count 45, page_size    *)
(* 20, page 3, total_pages 3, has_next false and has_prev true the page    *)
(* returned has exactly these values.                                      *)
C36_PageUnaltered ==
    \A c \in Callers :
        Paged(c) =>
            LET sent == Envelope(c).data
                got == call[c].result.payload
            IN /\ got.items = sent.items
               /\ got.total_count = sent.total_count
               /\ got.page = sent.page
               /\ got.page_size = sent.page_size
               /\ got.total_pages = sent.total_pages
               /\ got.has_next = sent.has_next
               /\ got.has_prev = sent.has_prev
               /\ call[c].resp.text = "{success:true,data:Page45}"
                  => /\ got.total_count = 45 /\ got.page_size = 20
                     /\ got.page = 3 /\ got.total_pages = 3
                     /\ got.has_next = FALSE /\ got.has_prev = TRUE
                     /\ got.items = <<Tx3, Tx1, Tx2>>

(* A page of two items with page_size 1 has been returned as the server   *)
(* sent it.                                                                *)
C36_Witness ==
    \E c \in Callers :
        /\ Paged(c)
        /\ Envelope(c).data = PageLong
        /\ ~PageInvariants(call[c].result.payload)
        /\ Len(call[c].result.payload.items) = 2

(* C37: a facade call that fails validation takes no slot of the rate    *)
(* limiter: the step that ends it in ValidationError leaves the RateWindow *)
(* as it was (no entry recorded, none pruned), and puts no request on the  *)
(* transport.                                                              *)
C37_RejectedTakesNoSlot ==
    [][ \A c \in Callers :
          (pc[c] = "idle" /\ pc'[c] = "done"
             /\ call'[c].result.kind = "ValidationError")
          => /\ calls' = calls
             /\ issued' = issued
             /\ call'[c].acquires = 0 ]_vars

(* A second call has been rejected while the RateWindow holds the entry   *)
(* of the first, expired and not pruned.                                   *)
C37_Witness ==
    \E c \in Callers :
        /\ Done(c)
        /\ call[c].result.kind = "ValidationError"
        /\ started = 2
        /\ Len(calls) = 1
        /\ clock - calls[1] >= limiter.window

(* C38: the wait an acquire imposes is bounded by the window.  A caller  *)
(* asleep in its acquire sleeps for more than 0 and at most window seconds *)
(* from the time it asked, and once that time has passed it is admitted    *)
(* whatever the callers that came later have done: the acquire does not    *)
(* wait a second time.                                                     *)
C38_WaitWithinWindow ==
    \A c \in Tasks :
        pc[c] = "limited"
        => /\ call[c].wake - call[c].now > 0
           /\ call[c].wake - call[c].now <= limiter.window
           /\ call[c].now <= clock
           /\ clock >= call[c].wake => ENABLED LimiterWake(c)

(* Both tasks are asleep in their acquires, one of them for the whole     *)
(* window.                                                                 *)
C38_Witness ==
    /\ \A c \in Tasks : pc[c] = "limited"
    /\ \E c \in Tasks : call[c].wake - call[c].now = limiter.window
    /\ limiter.window = MaxWindow

(* C39: after set_api_key(k) every request, of the blocking and of the   *)
(* suspending path, carries k in its X-API-Key header, also on a client    *)
(* constructed without a key; set_api_key puts no request on the transport *)
(* and leaves the RateWindow as it is.  A step that changes the key sets   *)
(* it in the headers of both httpx clients and changes neither the         *)
(* requests issued nor the window, and a step that issues a request issues *)
(* it with the key last set.                                               *)
C39_KeyOnLaterRequests ==
    [][ /\ config'.api_key # config.api_key
           => /\ \A h \in HttpClients : transport'[h].x_api_key = config'.api_key
              /\ issued' = issued
              /\ calls' = calls
        /\ Len(issued') > Len(issued)
           => /\ issued'[Len(issued')].x_api_key = config.api_key
              /\ \A h \in HttpClients : transport[h].x_api_key = config.api_key ]_vars

(* On a client constructed without a key, a request of the suspending     *)
(* path has gone out with the second key set, after a request with the    *)
(* first.                                                                  *)
C39_Witness ==
    /\ Len(issued) >= 2
    /\ issued[1].x_api_key = "key1"
    /\ issued[Len(issued)].x_api_key = "key2"
    /\ \E c \in Callers : ClientOf(c) = "_async_client" /\ call[c].http >= 1

====
